---- MODULE Spec2Model ----
(***************************************************************************)
(* Repair-ticket pages of the RP-TRR client.                               *)
(*                                                                         *)
(* The repository holds five variants of the ticket detail page.  Each is  *)
(* a React component that loads one ticket through the REST API, keeps an  *)
(* editable copy of some of its fields, and submits PUT requests:          *)
(*   "adminDelegate"  src/src/app/admin/repairs/[id]/page.tsx  1..690      *)
(*   "adminFlow"      src/src/app/admin/repairs/[id]/page.tsx  692..1094   *)
(*   "adminRole"      src/src/app/admin/repairs/[id]/page.tsx  1095..2092  *)
(*   "adminAccept"    src/unnamed/part_003                                 *)
(*   "it"             src/src/app/it/repairs/[id]/page.tsx                 *)
(*                                                                         *)
(* The state is the ticket stored behind the REST API and, per browser     *)
(* session, the component state of the page (React useState cells) and the *)
(* PUT requests it has in flight.  title stands for the descriptive text   *)
(* fields (problemTitle, problemDescription, location), which every page   *)
(* guards alike; notes is the repair log.  A note is "" (empty), " "       *)
(* (whitespace only) or "n" (text).                                        *)
(*                                                                         *)
(* Form edits are taken only while the page has no request in flight: an   *)
(* edit made during a request is either discarded by the reload that       *)
(* follows success or is indistinguishable from the same edit made after   *)
(* the error response.                                                     *)
(*                                                                         *)
(* Spec is the five pages with every input.  SpecIT and SpecStep are the   *)
(* IT page and the step-workflow admin pages on their own; SpecKeepText is *)
(* every page with the text fields left as loaded.                         *)
(*                                                                         *)
(* Two further pages have state and specifications of their own: the LINE  *)
(* callback page (cb, SpecCb: src/src/app/callback/callback-content.tsx    *)
(* and src/unnamed/part_000) and the admin loans page (loansPage,          *)
(* SpecLoans: src/unnamed/part_002).                                       *)
(***************************************************************************)
EXTENDS Integers, Sequences, FiniteSets, TLC

VARIABLES ticket, sess, cb, loansPage

vars == <<ticket, sess, cb, loansPage>>

\* The state of the pages other than the ticket pages
otherPages == <<cb, loansPage>>

(* ------------------------------ bounds --------------------------------- *)

MaxUserId == 2

MaxInFlight == 2

MaxEffectRuns == 2

MaxLoans == 11

(* ------------------------------ domains -------------------------------- *)

Status == {"PENDING", "ASSIGNED", "IN_PROGRESS", "WAITING_PARTS", "COMPLETED", "CANCELLED"}

Terminal == {"COMPLETED", "CANCELLED"}

UserIds == 1..MaxUserId

NoUser == 0

AdminId == 1

Notes == {"", " ", "n"}

Titles == {"t0", "t1"}

Pages == {"adminDelegate", "adminFlow", "adminRole", "adminAccept", "it"}

Sessions == {1}

(* ------------------------------ helpers -------------------------------- *)

Includes(seq, u) == \E i \in 1..Len(seq) : seq[i] = u

Without(seq, u) == SelectSeq(seq, LAMBDA x : x # u)

SeqToSet(seq) == {seq[i] : i \in 1..Len(seq)}

Min(S) == CHOOSE x \in S : \A y \in S : x <= y

RECURSIVE SetToSeq(_)
SetToSeq(S) == IF S = {} THEN <<>> ELSE <<Min(S)>> \o SetToSeq(S \ {Min(S)})

Trim(n) == IF n = " " THEN "" ELSE n

RECURSIVE Insert(_, _)
Insert(seq, x) ==
    IF seq = <<>> THEN <<x>>
    ELSE IF x <= Head(seq) THEN <<x>> \o seq
    ELSE <<Head(seq)>> \o Insert(Tail(seq), x)

\* Array.prototype.sort on the id arrays the model draws (single-digit ids)
RECURSIVE SortIds(_)
SortIds(seq) == IF seq = <<>> THEN <<>> ELSE Insert(SortIds(Tail(seq)), Head(seq))

(* ------------------------- component state ----------------------------- *)

\* data === null: the value the snapshot cell holds before the fetch resolves
NoData == [status |-> "PENDING", assignees |-> <<>>, notes |-> "", title |-> ""]

\* The useState initial values of a page, with the fetch effect started.
\* loading is the page's busy flag (`saving` on adminRole once loaded).
Mount(page, userId, isAdmin) ==
    [page |-> page, userId |-> userId, isAdmin |-> isAdmin,
     loaded |-> FALSE, data |-> NoData,
     title |-> "", notes |-> "", status |-> "PENDING", assigneeIds |-> <<>>,
     loading |-> TRUE, error |-> FALSE, isEditing |-> FALSE, reqs |-> <<>>]

\* The snapshot fetchDetail builds from the GET response
Snapshot(t) ==
    [status |-> t.status, assignees |-> SetToSeq(t.assignees),
     notes |-> t.notes, title |-> t.title]

\* adminRole: target status derived from the selected assignees
DerivedStatus(userId, ids) ==
    LET adminIsAssigned == IF userId # NoUser THEN Includes(ids, userId) ELSE FALSE
    IN  IF adminIsAssigned /\ Len(ids) = 1 THEN "IN_PROGRESS" ELSE "ASSIGNED"

\* adminRole: the effect that follows every change of assigneeIds or data
AutoStatus(c) ==
    IF c.page = "adminRole" /\ c.loaded /\ c.data.status = "PENDING" /\ Len(c.assigneeIds) > 0
    THEN [c EXCEPT !.status = DerivedStatus(c.userId, c.assigneeIds)]
    ELSE c

\* fetchDetail resolved: snapshot stored, form cells filled from it
Fetched(c, t) ==
    AutoStatus([c EXCEPT !.loaded = TRUE, !.data = Snapshot(t),
                         !.title = t.title, !.notes = t.notes, !.status = t.status,
                         !.assigneeIds = SetToSeq(t.assignees), !.loading = FALSE])

(* ------------------------- per-page status tables ---------------------- *)

\* adminFlow
STATUS_FLOW ==
    [PENDING |-> {"IN_PROGRESS", "WAITING_PARTS", "COMPLETED", "CANCELLED"},
     IN_PROGRESS |-> {"WAITING_PARTS", "COMPLETED", "CANCELLED"},
     WAITING_PARTS |-> {"IN_PROGRESS", "COMPLETED", "CANCELLED"},
     COMPLETED |-> {},
     CANCELLED |-> {}]

\* adminRole
STATUS_CONFIG == {"PENDING", "ASSIGNED", "IN_PROGRESS", "COMPLETED", "CANCELLED"}

\* adminRole, getAvailableStatuses: transitions
transitions ==
    [PENDING |-> {"ASSIGNED", "CANCELLED"},
     ASSIGNED |-> {"PENDING", "IN_PROGRESS", "CANCELLED"},
     IN_PROGRESS |-> {"COMPLETED", "CANCELLED"},
     COMPLETED |-> {},
     CANCELLED |-> {}]

\* The render throws a TypeError (lookup of a status the page's table lacks)
RenderFaults(c) ==
    /\ c.loaded
    /\ \/ c.page = "adminFlow" /\ c.status \notin DOMAIN STATUS_FLOW
       \/ c.page = "adminRole" /\ c.data.status \notin STATUS_CONFIG

(* ------------------------- computed flags ------------------------------ *)

\* it: isMyJob
isMyJob(c) == c.userId # NoUser /\ Includes(c.data.assignees, c.userId)

\* it: isAssigned
isAssigned(c) == Len(c.data.assignees) > 0

\* it: canEdit
canEditIT(c) == isMyJob(c) /\ c.data.status # "ASSIGNED" /\ c.data.status # "PENDING"

\* adminRole: isAssignedToMe (reads the form's assigneeIds, not the snapshot)
isAssignedToMe(c) == IF c.userId # NoUser THEN Includes(c.assigneeIds, c.userId) ELSE FALSE

\* adminRole: isLocked
isLocked(c) == c.data.status \in {"COMPLETED", "CANCELLED"}

\* adminRole: canEdit
canEdit(c) ==
    IF c.data.status \in {"COMPLETED", "CANCELLED"} THEN FALSE
    ELSE IF c.isAdmin THEN TRUE
    ELSE isAssignedToMe(c) /\ c.data.status # "PENDING"

\* adminRole: canAcceptJob
canAcceptJob(c) == c.data.status = "ASSIGNED" /\ isAssignedToMe(c)

\* adminFlow: hasChanges
hasChanges(c) ==
    \/ c.title # c.data.title
    \/ c.status # c.data.status
    \/ c.notes # c.data.notes
    \/ SortIds(c.assigneeIds) # SortIds(c.data.assignees)

(* ------------------------- what each page renders ---------------------- *)

\* The page is on screen and reacts to input
Shown(c) == c.loaded /\ ~RenderFaults(c)

\* No request of this page is in flight
Idle(c) == Shown(c) /\ c.reqs = <<>>

\* The title input accepts input
TitleEditable(c) ==
    CASE c.page = "adminRole" -> c.isEditing
      [] c.page = "it" -> canEditIT(c)
      [] OTHER -> TRUE

\* The notes textarea accepts input
NotesEditable(c) ==
    CASE c.page \in {"adminDelegate", "adminAccept"} -> c.data.status # "PENDING"
      [] c.page = "adminFlow" -> TRUE
      [] c.page = "adminRole" -> canEdit(c)
      [] OTHER -> canEditIT(c)

\* adminDelegate, step 1: the technician list, rendered only for PENDING
Step1ListEnabled(c) == c.page = "adminDelegate" /\ c.data.status = "PENDING"

\* adminDelegate / adminAccept, step 2: the management assignee list
ManagementListEnabled(c) ==
    c.page \in {"adminDelegate", "adminAccept"} /\ c.data.status # "PENDING"

\* An assignee checkbox is rendered and enabled
ToggleEnabled(c) ==
    CASE c.page = "adminDelegate" -> Step1ListEnabled(c) \/ ManagementListEnabled(c)
      [] c.page = "adminAccept" -> ManagementListEnabled(c)
      [] c.page = "adminRole" -> canEdit(c) \/ c.data.status = "PENDING"
      [] OTHER -> FALSE

\* adminDelegate, getAvailableStatuses: the options and the disabled flag
allStatusesDelegate == {"PENDING", "ASSIGNED", "IN_PROGRESS", "COMPLETED", "CANCELLED"}

disabledDelegate(currentStatus, s) ==
    IF currentStatus = "COMPLETED" \/ currentStatus = "CANCELLED"
    THEN s # currentStatus
    ELSE FALSE

\* adminAccept, getAvailableStatuses
allStatusesAccept == {"PENDING", "IN_PROGRESS", "COMPLETED", "CANCELLED"}

disabledAccept(currentStatus, s) ==
    IF currentStatus = "COMPLETED" \/ currentStatus = "CANCELLED"
    THEN s # currentStatus
    ELSE IF currentStatus = "IN_PROGRESS" \/ currentStatus = "WAITING_PARTS"
    THEN s = "PENDING"
    ELSE FALSE

\* adminFlow, availableStatuses: keyed on the form's status, not the snapshot's
STATUS_LABEL == {"PENDING", "IN_PROGRESS", "WAITING_PARTS", "COMPLETED", "CANCELLED"}

disabledFlow(status, s) ==
    status # s /\ (status = "COMPLETED" \/ status = "CANCELLED" \/ s \notin STATUS_FLOW[status])

\* adminRole, getAvailableStatuses: the options left after .filter(!disabled)
allStatusesRole == {"PENDING", "ASSIGNED", "IN_PROGRESS", "COMPLETED", "CANCELLED"}

disabledRole(dataStatus, s) ==
    LET allowed == IF dataStatus \in DOMAIN transitions THEN transitions[dataStatus] ELSE {}
    IN  s # dataStatus /\ s \notin allowed

\* it: the options of the status select
allStatusesIT == {"PENDING", "IN_PROGRESS", "WAITING_PARTS", "COMPLETED", "CANCELLED"}

\* The statuses the page's status select lets the user pick now
StatusOptions(c) ==
    CASE c.page = "adminDelegate" ->
            IF c.data.status \in Terminal \/ c.data.status = "PENDING" THEN {}
            ELSE {s \in allStatusesDelegate : ~disabledDelegate(c.data.status, s)}
      [] c.page = "adminAccept" ->
            IF c.data.status \in Terminal \/ c.data.status = "PENDING" THEN {}
            ELSE {s \in allStatusesAccept : ~disabledAccept(c.data.status, s)}
      [] c.page = "adminFlow" ->
            IF c.status \in Terminal THEN {}
            ELSE {s \in STATUS_LABEL : ~disabledFlow(c.status, s)}
      [] c.page = "adminRole" ->
            IF isLocked(c) \/ ~canEdit(c) THEN {}
            ELSE {s \in allStatusesRole : ~disabledRole(c.data.status, s)}
      [] OTHER ->
            IF canEditIT(c) THEN allStatusesIT ELSE {}

(* ------------------------- request bodies ------------------------------ *)

Reasons == {"", "r"}

\* A PUT /api/repairs/:id body.  op names the handler that sent it; a field
\* the body does not carry has its has* flag FALSE and a filler value.
Body(op, status, hasTitle, title, hasNotes, notes, hasAssignees, ids, reason) ==
    [op |-> op, status |-> status,
     hasTitle |-> hasTitle, title |-> title,
     hasNotes |-> hasNotes, notes |-> notes,
     hasAssignees |-> hasAssignees, assigneeIds |-> ids, reason |-> reason]

\* The user's id pushed without the includes test
newAssigneeIdsPush(c) ==
    IF c.userId # NoUser THEN Append(c.assigneeIds, c.userId) ELSE c.assigneeIds

\* adminDelegate / adminAccept, handleAcceptJob: newAssigneeIds
newAssigneeIds(c) ==
    IF c.userId # NoUser /\ ~Includes(c.assigneeIds, c.userId)
    THEN Append(c.assigneeIds, c.userId)
    ELSE c.assigneeIds

\* adminRole, handleSave: finalStatus
finalStatus(c) ==
    IF c.data.status = "PENDING" /\ Len(c.assigneeIds) > 0
    THEN DerivedStatus(c.userId, c.assigneeIds)
    ELSE c.status

\* it, handleRejectJob: the marker put between the old notes and the reason
RejectTag == "[IT]: "

\* it, handleRejectJob: data.notes + "\n[...]: " + reason
RejectNotes(notes, reason) == notes \o RejectTag \o reason

\* handleSave with the IT page sending an assignee list too, an empty one
SaveBodyWithAssignees(c) ==
    CASE c.page = "it" ->
            Body("save", c.status, TRUE, c.title, TRUE, c.notes, TRUE, <<>>, "")
      [] c.page = "adminRole" ->
            Body("save", finalStatus(c), TRUE, c.title, TRUE, c.notes, TRUE, c.assigneeIds, "")
      [] OTHER ->
            Body("save", c.status, TRUE, c.title, TRUE, c.notes, TRUE, c.assigneeIds, "")

\* The body handleSave sends
SaveBody(c) ==
    CASE c.page = "it" ->
            Body("save", c.status, TRUE, c.title, TRUE, c.notes, FALSE, <<>>, "")
      [] c.page = "adminRole" ->
            Body("save", finalStatus(c), TRUE, c.title, TRUE, c.notes, TRUE, c.assigneeIds, "")
      [] OTHER ->
            Body("save", c.status, TRUE, c.title, TRUE, c.notes, TRUE, c.assigneeIds, "")

\* The Save button of the step-workflow pages left enabled while PENDING
SaveEnabledWhilePending(c) ==
    CASE c.page \in {"adminDelegate", "adminAccept"} -> ~c.loading
      [] c.page = "adminFlow" -> hasChanges(c) /\ ~c.loading
      [] c.page = "adminRole" -> ~isLocked(c) /\ ~c.loading /\ canEdit(c)
      [] OTHER -> canEditIT(c) /\ ~c.loading

\* The Save button is rendered and enabled
SaveEnabled(c) ==
    CASE c.page \in {"adminDelegate", "adminAccept"} -> ~c.loading /\ c.data.status # "PENDING"
      [] c.page = "adminFlow" -> hasChanges(c) /\ ~c.loading
      [] c.page = "adminRole" -> ~isLocked(c) /\ ~c.loading /\ canEdit(c)
      [] OTHER -> canEditIT(c) /\ ~c.loading

\* adminFlow, handleSave: the checks made before the request
SaveInvalid(c) ==
    /\ c.page = "adminFlow"
    /\ \/ c.status = "IN_PROGRESS" /\ Len(c.assigneeIds) = 0
       \/ c.status = "COMPLETED" /\ Trim(c.notes) = ""

\* An accept button is rendered and enabled, and the handler's guard passes
AcceptEnabled(c) ==
    CASE c.page \in {"adminDelegate", "adminAccept"} -> c.data.status = "PENDING" /\ ~c.loading
      [] c.page = "adminRole" -> canAcceptJob(c) /\ ~c.loading
      [] c.page = "it" ->
            /\ \/ isMyJob(c) /\ c.data.status = "ASSIGNED"
               \/ ~isAssigned(c) /\ ~isMyJob(c) /\ c.data.status = "PENDING"
            /\ ~c.loading
            /\ c.userId # NoUser
      [] OTHER -> FALSE

\* The body handleAcceptJob sends
AcceptBody(c) ==
    IF c.page \in {"adminDelegate", "adminAccept"}
    THEN Body("accept", "IN_PROGRESS", FALSE, "", FALSE, "", TRUE, newAssigneeIds(c), "")
    ELSE Body("accept", "IN_PROGRESS", FALSE, "", FALSE, "", FALSE, <<>>, "")

\* The request is sent and the snapshot already shows the status asked for
SentOptimistic(c, body) ==
    [c EXCEPT !.loading = TRUE, !.reqs = Append(@, body),
              !.data = [@ EXCEPT !.status = body.status]]

\* The request is sent: busy flag set, body in flight
Sent(c, body) == [c EXCEPT !.loading = TRUE, !.reqs = Append(@, body)]

(* ------------------------- the REST collaborator ------------------------ *)

\* PUT /api/repairs/:id committed: the fields the body carries replace the
\* stored ones
Apply(t, r) ==
    [status |-> r.status,
     assignees |-> IF r.hasAssignees THEN SeqToSet(r.assigneeIds) ELSE t.assignees,
     notes |-> IF r.hasNotes THEN r.notes ELSE t.notes,
     title |-> IF r.hasTitle THEN r.title ELSE t.title]

RemoveAt(seq, i) == SubSeq(seq, 1, i - 1) \o SubSeq(seq, i + 1, Len(seq))

(* ------------------------- the LINE callback page ---------------------- *)
(* Two variants of CallbackContent: "login" exchanges the code for a       *)
(* session (src/src/app/callback/callback-content.tsx); "linking" also     *)
(* starts and completes the linking of a LINE account (src/unnamed/        *)
(* part_000).  The query parameters are code and token (present or not)    *)
(* and state (absent, plain, or "linking:<token>").  pc is the await the   *)
(* handler is suspended at; "left" is the page after a redirect.           *)

CbVariants == {"login", "linking"}

StateParams == {"none", "plain", "linking"}

\* The useState / useRef initial values; stored tells whether localStorage
\* holds the user id and token the linking needs
CbMount(variant, code, state, token, stored) ==
    [variant |-> variant, code |-> code, state |-> state, token |-> token,
     stored |-> stored,
     hasCalled |-> FALSE, isLoading |-> TRUE, error |-> FALSE, success |-> FALSE,
     pc |-> "idle", effectRuns |-> 0, exchanges |-> 0, redirects |-> 0, errors |-> 0]

\* No callback page is open
CbClosed == CbMount("none", FALSE, "none", FALSE, FALSE)

\* setError(...); setIsLoading(false)
CbFailed(c) ==
    [c EXCEPT !.error = TRUE, !.isLoading = FALSE, !.errors = @ + 1, !.pc = "done"]

\* router.replace / router.push / window.location.href
CbRedirected(c) == [c EXCEPT !.redirects = @ + 1, !.pc = "left"]

\* A request that carries the code is sent; the handler awaits it at pc
CbExchange(c, pc) == [c EXCEPT !.exchanges = @ + 1, !.pc = pc]

\* The handler runs whether or not it ran before
NotYetCalledAlways(c) == TRUE

\* handleCallback: if (hasCalled.current) return
NotYetCalled(c) == ~c.hasCalled

\* handleCallback from hasCalled.current = true up to its first await
handleCallback(c) ==
    LET d == [c EXCEPT !.hasCalled = TRUE] IN
    IF c.variant = "login"
    THEN IF ~c.code THEN CbFailed(d) ELSE CbExchange(d, "exchange")
    ELSE IF c.token /\ ~c.code THEN [d EXCEPT !.pc = "authUrl"]
    ELSE IF c.code
    THEN IF c.state = "linking" THEN CbExchange(d, "verify") ELSE CbExchange(d, "exchange")
    ELSE [d EXCEPT !.pc = "done"]

\* The effect runs (on mount, and again whenever React re-runs it)
CbEffect ==
    /\ cb.variant # "none" /\ cb.pc # "left"
    /\ cb.effectRuns < MaxEffectRuns
    /\ cb' = [(IF NotYetCalled(cb) THEN handleCallback(cb) ELSE cb)
                EXCEPT !.effectRuns = cb.effectRuns + 1]
    /\ UNCHANGED <<ticket, sess, loansPage>>

\* linking: GET /api/auth/line-auth-url answered
CbAuthUrl(outcome) ==
    /\ cb.pc = "authUrl"
    /\ cb' = IF outcome = "ok" THEN CbRedirected(cb) ELSE CbFailed(cb)
    /\ UNCHANGED <<ticket, sess, loansPage>>

\* POST /api/auth/line-callback answered
CbExchanged(outcome) ==
    /\ cb.pc = "exchange"
    /\ cb' = IF outcome = "token" THEN CbRedirected(cb) ELSE CbFailed(cb)
    /\ UNCHANGED <<ticket, sess, loansPage>>

\* linking: POST /api/auth/verify-line-code answered
CbVerified(ok) ==
    /\ cb.pc = "verify"
    /\ cb' = IF ok /\ cb.stored THEN [cb EXCEPT !.pc = "link"] ELSE CbFailed(cb)
    /\ UNCHANGED <<ticket, sess, loansPage>>

\* linking: POST /api/line-oa/linking/verify answered
CbLinked(ok) ==
    /\ cb.pc = "link"
    /\ cb' = IF ok THEN [cb EXCEPT !.success = TRUE, !.isLoading = FALSE, !.pc = "timer"]
             ELSE CbFailed(cb)
    /\ UNCHANGED <<ticket, sess, loansPage>>

\* linking: the setTimeout after the success message fires
CbTimer ==
    /\ cb.pc = "timer"
    /\ cb' = CbRedirected(cb)
    /\ UNCHANGED <<ticket, sess, loansPage>>

(* ------------------------- the admin loans page ------------------------ *)
(* AdminLoansContent (src/unnamed/part_002) keeps the fetched list of      *)
(* loans, a search term, a status filter and the current page number.  A   *)
(* loan is represented by its status; every loan is named "a", and the     *)
(* search term is "", "a" (matches every loan) or "z" (matches none).      *)

itemsPerPage == 10

LoanStatus == {"BORROWED", "RETURNED"}

SearchTerms == {"", "a", "z"}

FilterOptions == {"all"} \cup LoanStatus

\* The lists of at most n loans
RECURSIVE LoanLists(_)
LoanLists(n) ==
    IF n = 0 THEN {<<>>}
    ELSE LET shorter == LoanLists(n - 1)
         IN  shorter \cup {Append(l, st) : l \in {x \in shorter : Len(x) = n - 1}, st \in LoanStatus}

\* The useState initial values, with fetchLoans started; filter is the
\* status the URL names ("all" when it names none)
LoansMount(filter) ==
    [open |-> TRUE, loans |-> <<>>, loading |-> TRUE,
     searchTerm |-> "", filterStatus |-> filter, currentPage |-> 1]

\* No loans page is open
LoansClosed == [LoansMount("all") EXCEPT !.open = FALSE, !.loading = FALSE]

\* filteredLoans: matchesSearch && matchesStatus
matchesSearch(searchTerm) == searchTerm # "z"

filteredLoans(p) ==
    IF matchesSearch(p.searchTerm)
    THEN SelectSeq(p.loans, LAMBDA st : p.filterStatus = "all" \/ st = p.filterStatus)
    ELSE <<>>

\* Math.ceil(filteredLoans.length / itemsPerPage)
totalPages(p) == (Len(filteredLoans(p)) + itemsPerPage - 1) \div itemsPerPage

\* The positions of filteredLoans that paginatedLoans shows
PageSlice(p) ==
    {i \in 1..Len(filteredLoans(p)) :
        (p.currentPage - 1) * itemsPerPage < i /\ i <= p.currentPage * itemsPerPage}

\* The position in loans of the i-th loan of filteredLoans
RECURSIVE PositionOf(_, _, _)
PositionOf(p, i, from) ==
    LET hit == matchesSearch(p.searchTerm)
                /\ (p.filterStatus = "all" \/ p.loans[from] = p.filterStatus)
    IN  IF hit /\ i = 1 THEN from
        ELSE PositionOf(p, IF hit THEN i - 1 ELSE i, from + 1)

\* fetchLoans resolves with the server's list
LoansFetched(list) ==
    /\ loansPage.open /\ loansPage.loading /\ loansPage.loans = <<>>
    /\ loansPage' = [loansPage EXCEPT !.loans = list, !.loading = FALSE]
    /\ UNCHANGED <<ticket, sess, cb>>

\* The search input changes; the reset effect follows
SetSearchTerm(v) ==
    /\ loansPage.open /\ ~loansPage.loading /\ v # loansPage.searchTerm
    /\ loansPage' = [loansPage EXCEPT !.searchTerm = v, !.currentPage = 1]
    /\ UNCHANGED <<ticket, sess, cb>>

\* The status filter changes
SetFilterStatus(v) ==
    /\ loansPage.open /\ ~loansPage.loading /\ v # loansPage.filterStatus
    /\ loansPage' = [loansPage EXCEPT !.filterStatus = v, !.currentPage = 1]
    /\ UNCHANGED <<ticket, sess, cb>>

\* The previous-page button
PrevPage ==
    /\ loansPage.open /\ ~loansPage.loading
    /\ totalPages(loansPage) > 0 /\ loansPage.currentPage # 1
    /\ loansPage' = [loansPage EXCEPT !.currentPage = @ - 1]
    /\ UNCHANGED <<ticket, sess, cb>>

\* The next-page button
NextPage ==
    /\ loansPage.open /\ ~loansPage.loading
    /\ totalPages(loansPage) > 0 /\ ~(loansPage.currentPage >= totalPages(loansPage))
    /\ loansPage' = [loansPage EXCEPT !.currentPage = @ + 1]
    /\ UNCHANGED <<ticket, sess, cb>>

\* handleDelete of the i-th loan shown, confirmed, with the fetchLoans that
\* follows it resolved
DeleteLoan(i) ==
    /\ loansPage.open /\ ~loansPage.loading
    /\ i \in PageSlice(loansPage)
    /\ loansPage' = [loansPage EXCEPT !.loans = RemoveAt(@, PositionOf(loansPage, i, 1))]
    /\ UNCHANGED <<ticket, sess, cb>>

\* handleAddLoan with the fetchLoans that follows it resolved; the server
\* lists the new loan first or last
AddLoan(first) ==
    /\ loansPage.open /\ ~loansPage.loading
    /\ Len(loansPage.loans) < MaxLoans
    /\ loansPage' = [loansPage EXCEPT !.loans =
            IF first THEN <<"BORROWED">> \o @ ELSE Append(@, "BORROWED")]
    /\ UNCHANGED <<ticket, sess, cb>>

(* ------------------------------ actions -------------------------------- *)

\* The users a session may belong to: user AdminId is the administrator,
\* NoUser is a browser without a stored user id.  The admin pages that never
\* read the role are opened by the administrator.
PageActors(page) ==
    CASE page = "adminFlow" -> {AdminId}
      [] page \in {"adminDelegate", "adminAccept"} -> {NoUser, AdminId}
      [] page = "adminRole" -> {NoUser} \cup UserIds
      [] OTHER -> {NoUser} \cup (UserIds \ {AdminId})

\* The tickets a page may find stored: any status, with somebody assigned
\* once the ticket has been handed out and a closing note once completed.
Stored ==
    {t \in [status : Status, assignees : SUBSET UserIds, notes : Notes, title : {"t0"}] :
        /\ t.status \in {"ASSIGNED", "IN_PROGRESS", "WAITING_PARTS"} => t.assignees # {}
        /\ t.status = "COMPLETED" => Trim(t.notes) # ""}

Init ==
    /\ ticket \in Stored
    /\ sess \in [Sessions -> {Mount(p, u, u = AdminId) : p \in Pages, u \in {NoUser} \cup UserIds}]
    /\ \A s \in Sessions : sess[s].userId \in PageActors(sess[s].page)
    /\ cb = CbClosed
    /\ loansPage = LoansClosed

\* fetchDetail resolves
Load(s) ==
    /\ ~sess[s].loaded /\ sess[s].loading
    /\ sess' = [sess EXCEPT ![s] = Fetched(@, ticket)]
    /\ UNCHANGED <<ticket, otherPages>>

\* fetchDetail throws
LoadFail(s) ==
    /\ ~sess[s].loaded /\ sess[s].loading
    /\ sess' = [sess EXCEPT ![s] = [@ EXCEPT !.error = TRUE, !.loading = FALSE]]
    /\ UNCHANGED <<ticket, otherPages>>

EditTitle(s, v) ==
    /\ Idle(sess[s]) /\ TitleEditable(sess[s]) /\ v # sess[s].title
    /\ sess' = [sess EXCEPT ![s].title = v]
    /\ UNCHANGED <<ticket, otherPages>>

EditNotes(s, v) ==
    /\ Idle(sess[s]) /\ NotesEditable(sess[s]) /\ v # sess[s].notes
    /\ sess' = [sess EXCEPT ![s].notes = v]
    /\ UNCHANGED <<ticket, otherPages>>

\* onChange={setStatus} of the status select
SelectStatus(s, v) ==
    /\ Idle(sess[s]) /\ sess[s].page # "adminRole"
    /\ v \in StatusOptions(sess[s]) /\ v # sess[s].status
    /\ sess' = [sess EXCEPT ![s].status = v]
    /\ UNCHANGED <<ticket, otherPages>>

toggleAssignee(ids, userId) ==
    IF Includes(ids, userId) THEN Without(ids, userId) ELSE Append(ids, userId)

ToggleAssignee(s, u) ==
    /\ Idle(sess[s]) /\ ToggleEnabled(sess[s])
    /\ sess' = [sess EXCEPT ![s] = AutoStatus([@ EXCEPT !.assigneeIds = toggleAssignee(@, u)])]
    /\ UNCHANGED <<ticket, otherPages>>

\* adminRole: the edit / cancel buttons of the header
SetEditing(s, b) ==
    /\ Idle(sess[s]) /\ sess[s].page = "adminRole"
    /\ ~isLocked(sess[s]) /\ canEdit(sess[s]) /\ sess[s].isEditing # b
    /\ sess' = [sess EXCEPT ![s].isEditing = b]
    /\ UNCHANGED <<ticket, otherPages>>

\* handleSave; on adminRole both the footer and the header button
Save(s) ==
    LET c == sess[s] IN
    /\ Shown(c) /\ SaveEnabled(c) /\ Len(c.reqs) < MaxInFlight
    /\ \E header \in BOOLEAN :
          /\ header => c.page = "adminRole" /\ c.isEditing
          /\ sess' = [sess EXCEPT ![s] =
                IF SaveInvalid(c) THEN [c EXCEPT !.error = TRUE]
                ELSE [Sent(c, SaveBody(c)) EXCEPT
                        !.error = IF c.page = "adminFlow" THEN FALSE ELSE @,
                        !.isEditing = IF header THEN FALSE ELSE @]]
    /\ UNCHANGED <<ticket, otherPages>>

AcceptJob(s) ==
    LET c == sess[s] IN
    /\ Shown(c) /\ AcceptEnabled(c) /\ Len(c.reqs) < MaxInFlight
    /\ sess' = [sess EXCEPT ![s] = Sent(c, AcceptBody(c))]
    /\ UNCHANGED <<ticket, otherPages>>

\* adminDelegate: handleDelegateJob
DelegateJob(s) ==
    LET c == sess[s] IN
    /\ Shown(c) /\ c.page = "adminDelegate" /\ c.data.status = "PENDING"
    /\ ~c.loading /\ Len(c.assigneeIds) # 0 /\ Len(c.reqs) < MaxInFlight
    /\ sess' = [sess EXCEPT ![s] =
            Sent(c, Body("delegate", "ASSIGNED", FALSE, "", FALSE, "", TRUE, c.assigneeIds, ""))]
    /\ UNCHANGED <<ticket, otherPages>>

\* The reject button offered for every job of the user, whatever its status
RejectEnabledAnyStatus(c) ==
    c.page = "it" /\ isMyJob(c) /\ ~c.loading /\ c.userId # NoUser

\* it: the reject button is rendered and enabled, and the handler's guard passes
RejectEnabled(c) ==
    /\ c.page = "it"
    /\ isMyJob(c) /\ c.data.status = "ASSIGNED"
    /\ ~c.loading
    /\ c.userId # NoUser

\* it: handleRejectJob, the prompt answered with reason (a cancelled prompt
\* returns without a change)
RejectJob(s, reason) ==
    LET c == sess[s] IN
    /\ Shown(c) /\ RejectEnabled(c) /\ Len(c.reqs) < MaxInFlight
    /\ sess' = [sess EXCEPT ![s] =
            Sent(c, Body("reject", "PENDING", FALSE, "", TRUE, RejectNotes(c.data.notes, reason),
                         FALSE, <<>>, reason))]
    /\ UNCHANGED <<ticket, otherPages>>

\* adminRole, handleStatusChange confirmed in its dialog: the page state it
\* leaves.  A target equal to the loaded status returns at once.
StatusChanged(c, newStatus) ==
    IF newStatus = c.data.status THEN c
    ELSE Sent(c, Body("statusChange", newStatus, TRUE, c.title, TRUE, c.notes,
                      TRUE, c.assigneeIds, ""))

\* adminRole: the status select (value={status}) changed to newStatus; the
\* select stays enabled while saving
StatusChange(s, newStatus) ==
    LET c == sess[s] IN
    /\ Shown(c) /\ c.page = "adminRole"
    /\ newStatus \in StatusOptions(c) /\ newStatus # c.status
    /\ Len(c.reqs) < MaxInFlight
    /\ sess' = [sess EXCEPT ![s] = StatusChanged(c, newStatus)]
    /\ UNCHANGED <<ticket, otherPages>>

\* What the handler does once its request has resolved: adminAccept's
\* handleAcceptJob patches the page state; every other handler reloads the
\* page or leaves for the list, from where the page is mounted afresh.
Resolved(c, r) ==
    IF c.page = "adminAccept" /\ r.op = "accept"
    THEN [c EXCEPT !.status = "IN_PROGRESS", !.assigneeIds = r.assigneeIds,
                   !.data = [@ EXCEPT !.status = "IN_PROGRESS"],
                   !.loading = FALSE, !.reqs = <<>>]
    ELSE Mount(c.page, c.userId, c.isAdmin)

\* The API commits request i of session s
ServerAccept(s, i) ==
    /\ i \in 1..Len(sess[s].reqs)
    /\ ticket' = Apply(ticket, sess[s].reqs[i])
    /\ sess' = [sess EXCEPT ![s] = Resolved(@, sess[s].reqs[i])]
    /\ UNCHANGED otherPages

\* The API answers request i of session s with an error
ServerReject(s, i) ==
    /\ i \in 1..Len(sess[s].reqs)
    /\ sess' = [sess EXCEPT ![s] =
            [@ EXCEPT !.reqs = RemoveAt(@, i), !.error = TRUE, !.loading = FALSE]]
    /\ UNCHANGED <<ticket, otherPages>>

Next ==
    \E s \in Sessions :
        \/ Load(s)
        \/ LoadFail(s)
        \/ \E v \in Titles : EditTitle(s, v)
        \/ \E v \in Notes : EditNotes(s, v)
        \/ \E v \in Status : SelectStatus(s, v)
        \/ \E u \in UserIds : ToggleAssignee(s, u)
        \/ \E b \in BOOLEAN : SetEditing(s, b)
        \/ Save(s)
        \/ AcceptJob(s)
        \/ DelegateJob(s)
        \/ \E reason \in Reasons : RejectJob(s, reason)
        \/ \E v \in Status : StatusChange(s, v)
        \/ \E i \in 1..MaxInFlight : ServerAccept(s, i)
        \/ \E i \in 1..MaxInFlight : ServerReject(s, i)

Spec == Init /\ [][Next]_vars

(* The LINE callback page on its own *)

InitCb ==
    /\ ticket = [status |-> "PENDING", assignees |-> {}, notes |-> "", title |-> "t0"]
    /\ sess = [s \in Sessions |-> Mount("it", NoUser, FALSE)]
    /\ cb \in {CbMount(v, code, state, token, stored) :
                    v \in CbVariants, code \in BOOLEAN, state \in StateParams,
                    token \in BOOLEAN, stored \in BOOLEAN}
    /\ loansPage = LoansClosed

NextCb ==
    \/ CbEffect
    \/ \E outcome \in {"ok", "badUrl", "fail"} : CbAuthUrl(outcome)
    \/ \E outcome \in {"token", "noToken", "fail"} : CbExchanged(outcome)
    \/ \E ok \in BOOLEAN : CbVerified(ok)
    \/ \E ok \in BOOLEAN : CbLinked(ok)
    \/ CbTimer

SpecCb == InitCb /\ [][NextCb]_vars

(* The admin loans page on its own *)

InitLoans ==
    /\ ticket = [status |-> "PENDING", assignees |-> {}, notes |-> "", title |-> "t0"]
    /\ sess = [s \in Sessions |-> Mount("it", NoUser, FALSE)]
    /\ cb = CbClosed
    /\ loansPage \in {LoansMount(filter) : filter \in FilterOptions}

NextLoans ==
    \/ \E list \in LoanLists(MaxLoans) : LoansFetched(list)
    \/ \E v \in SearchTerms : SetSearchTerm(v)
    \/ \E v \in FilterOptions : SetFilterStatus(v)
    \/ PrevPage
    \/ NextPage
    \/ \E i \in 1..MaxLoans : DeleteLoan(i)
    \/ \E first \in BOOLEAN : AddLoan(first)

SpecLoans == InitLoans /\ [][NextLoans]_vars

(* The IT page alone: the technician's view of the ticket *)

InitIT == Init /\ \A s \in Sessions : sess[s].page = "it"

NextIT ==
    \E s \in Sessions :
        \/ Load(s)
        \/ LoadFail(s)
        \/ \E v \in Titles : EditTitle(s, v)
        \/ \E v \in Notes : EditNotes(s, v)
        \/ \E v \in Status : SelectStatus(s, v)
        \/ Save(s)
        \/ AcceptJob(s)
        \/ \E reason \in Reasons : RejectJob(s, reason)
        \/ \E i \in 1..MaxInFlight : ServerAccept(s, i)
        \/ \E i \in 1..MaxInFlight : ServerReject(s, i)

SpecIT == InitIT /\ [][NextIT]_vars

(* The step-workflow admin pages alone *)

InitStep == Init /\ \A s \in Sessions : sess[s].page \in {"adminDelegate", "adminAccept"}

NextStep ==
    \E s \in Sessions :
        \/ Load(s)
        \/ LoadFail(s)
        \/ \E v \in Titles : EditTitle(s, v)
        \/ \E v \in Notes : EditNotes(s, v)
        \/ \E v \in Status : SelectStatus(s, v)
        \/ \E u \in UserIds : ToggleAssignee(s, u)
        \/ Save(s)
        \/ AcceptJob(s)
        \/ DelegateJob(s)
        \/ \E i \in 1..MaxInFlight : ServerAccept(s, i)
        \/ \E i \in 1..MaxInFlight : ServerReject(s, i)

SpecStep == InitStep /\ [][NextStep]_vars

(* Every page, with the text fields left as loaded: the user picks         *)
(* statuses and assignees and presses the buttons, and never types         *)

NextKeepText ==
    \E s \in Sessions :
        \/ Load(s)
        \/ LoadFail(s)
        \/ \E v \in Status : SelectStatus(s, v)
        \/ \E u \in UserIds : ToggleAssignee(s, u)
        \/ Save(s)
        \/ AcceptJob(s)
        \/ DelegateJob(s)
        \/ \E reason \in Reasons : RejectJob(s, reason)
        \/ \E v \in Status : StatusChange(s, v)
        \/ \E i \in 1..MaxInFlight : ServerAccept(s, i)
        \/ \E i \in 1..MaxInFlight : ServerReject(s, i)

SpecKeepText == Init /\ [][NextKeepText]_vars

(* ------------------------------ properties ----------------------------- *)
(* A request in flight was built from the snapshot the page still holds:   *)
(* the snapshot changes only when a request resolves.  The properties      *)
(* compare each body in flight with that snapshot.                         *)

InFlight(s) == SeqToSet(sess[s].reqs)

\* The sessions of an actor: a user with a resolved identity
Acting == {s \in Sessions : sess[s].userId # NoUser}

\* The assignee set the ticket has once request r is committed
ResultAssignees(c, r) ==
    IF r.hasAssignees THEN SeqToSet(r.assigneeIds) ELSE SeqToSet(c.data.assignees)

\* The notes the ticket has once request r is committed
ResultNotes(c, r) == IF r.hasNotes THEN r.notes ELSE c.data.notes

\* The canonical transition table of the lifecycle
Canonical ==
    [PENDING |-> {"ASSIGNED", "IN_PROGRESS", "CANCELLED"},
     ASSIGNED |-> {"IN_PROGRESS", "PENDING", "CANCELLED"},
     IN_PROGRESS |-> {"WAITING_PARTS", "COMPLETED", "CANCELLED"},
     WAITING_PARTS |-> {"IN_PROGRESS", "COMPLETED", "CANCELLED"},
     COMPLETED |-> {},
     CANCELLED |-> {}]

\* C1: for a ticket loaded in COMPLETED or CANCELLED no page submits an
\* update that carries a different status.
C1_TerminalStatusKept ==
    \A s \in Acting : \A r \in InFlight(s) :
        sess[s].data.status \in Terminal => r.status = sess[s].data.status

\* C2: for a ticket loaded in COMPLETED or CANCELLED no page submits an
\* update that changes its title, notes or assignees.
C2_TerminalFrozen ==
    \A s \in Acting : \A r \in InFlight(s) :
        sess[s].data.status \in Terminal =>
            /\ r.hasTitle => r.title = sess[s].data.title
            /\ r.hasNotes => r.notes = sess[s].data.notes
            /\ r.hasAssignees => SeqToSet(r.assigneeIds) = SeqToSet(sess[s].data.assignees)

\* C3: an update that moves a ticket into IN_PROGRESS and names the
\* assignee set names a non-empty one.
C3_EnterInProgressAssigned ==
    \A s \in Acting : \A r \in InFlight(s) :
        (r.status = "IN_PROGRESS" /\ sess[s].data.status # "IN_PROGRESS" /\ r.hasAssignees)
            => r.assigneeIds # <<>>

\* C4: an update to a ticket that is IN_PROGRESS with assignees never
\* leaves it IN_PROGRESS with an empty assignee set.
C4_InProgressKeepsAssignee ==
    \A s \in Acting : \A r \in InFlight(s) :
        (sess[s].data.status = "IN_PROGRESS" /\ sess[s].data.assignees # <<>>
            /\ r.status = "IN_PROGRESS")
            => ResultAssignees(sess[s], r) # {}

\* C5: an update that moves a ticket into COMPLETED leaves it with notes
\* that are not blank.
C5_CompleteNeedsNotes ==
    \A s \in Acting : \A r \in InFlight(s) :
        (r.status = "COMPLETED" /\ sess[s].data.status # "COMPLETED")
            => Trim(ResultNotes(sess[s], r)) # ""

\* C6: every status change a page submits is an edge of the canonical
\* transition table.
C6_CanonicalEdgesOnly ==
    \A s \in Acting : \A r \in InFlight(s) :
        r.status # sess[s].data.status => r.status \in Canonical[sess[s].data.status]

\* C7: a ticket loaded in IN_PROGRESS or WAITING_PARTS is never sent back
\* to PENDING.
C7_NoReturnToPending ==
    \A s \in Acting : \A r \in InFlight(s) :
        sess[s].data.status \in {"IN_PROGRESS", "WAITING_PARTS"} => r.status # "PENDING"

\* The page lets the user submit CANCELLED in one request from state c: the
\* status select offers it and Save then sends it, or (adminRole) picking it
\* sends it at once.
CanCancel(c) ==
    /\ Shown(c)
    /\ "CANCELLED" \in StatusOptions(c)
    /\ c.page # "adminRole" =>
            LET d == [c EXCEPT !.status = "CANCELLED"]
            IN  SaveEnabled(d) /\ ~SaveInvalid(d) /\ SaveBody(d).status = "CANCELLED"

\* C8: on an admin page that has loaded a ticket in a non-terminal status
\* and is not busy, the administrator can submit CANCELLED in one update.
C8_AdminCanCancel ==
    \A s \in Acting :
        LET c == sess[s] IN
        (c.page # "it" /\ c.isAdmin /\ c.loaded /\ ~c.loading /\ c.reqs = <<>>
            /\ c.data.status \notin Terminal)
            => CanCancel(c)

\* C9: an update that sets a new, non-empty assignee set on a ticket loaded
\* in PENDING carries IN_PROGRESS exactly when the acting user is the sole
\* assignee, and ASSIGNED otherwise.
C9_DerivedTarget ==
    \A s \in Acting : \A r \in InFlight(s) :
        (sess[s].data.status = "PENDING" /\ r.hasAssignees /\ r.assigneeIds # <<>>
            /\ SeqToSet(r.assigneeIds) # SeqToSet(sess[s].data.assignees))
            => r.status = (IF SeqToSet(r.assigneeIds) = {sess[s].userId}
                           THEN "IN_PROGRESS" ELSE "ASSIGNED")

\* C10: an accept is submitted only by one of the ticket's assignees, only
\* for a ticket loaded in ASSIGNED, and carries IN_PROGRESS.
C10_AcceptOnlyAssigned ==
    \A s \in Acting : \A r \in InFlight(s) :
        r.op = "accept" =>
            /\ sess[s].data.status = "ASSIGNED"
            /\ Includes(sess[s].data.assignees, sess[s].userId)
            /\ r.status = "IN_PROGRESS"

\* C11: every reject a page submits carries a reason that is not empty.
C11_RejectNeedsReason ==
    \A s \in Acting : \A r \in InFlight(s) :
        r.op = "reject" => r.reason # ""

\* str ends with suffix
EndsWith(str, suffix) ==
    /\ Len(suffix) <= Len(str)
    /\ SubSeq(str, Len(str) - Len(suffix) + 1, Len(str)) = suffix

\* str begins with prefix
StartsWith(str, prefix) ==
    /\ Len(prefix) <= Len(str)
    /\ SubSeq(str, 1, Len(prefix)) = prefix

\* C12: a reject is submitted only by one of the ticket's assignees and only
\* for a ticket loaded in ASSIGNED; it carries PENDING and notes that keep
\* the loaded notes and end with the reason given.
C12_RejectByAssigneeOfAssigned ==
    \A s \in Acting : \A r \in InFlight(s) :
        r.op = "reject" =>
            /\ sess[s].data.status = "ASSIGNED"
            /\ Includes(sess[s].data.assignees, sess[s].userId)
            /\ r.status = "PENDING"
            /\ r.hasNotes
            /\ StartsWith(r.notes, sess[s].data.notes)
            /\ EndsWith(r.notes, r.reason)
            /\ Len(r.notes) > Len(sess[s].data.notes) + Len(r.reason)

\* A reject with a reason is in flight
C12_Witness ==
    \E s \in Acting : \E r \in InFlight(s) : r.op = "reject" /\ r.reason = "r"

\* C13: an update that changes the assignee set of the loaded ticket comes
\* from the administrator and is made while the ticket is PENDING.
C13_AssigneesByAdminWhilePending ==
    \A s \in Acting : \A r \in InFlight(s) :
        (r.hasAssignees /\ SeqToSet(r.assigneeIds) # SeqToSet(sess[s].data.assignees))
            => sess[s].isAdmin /\ sess[s].data.status = "PENDING"

\* C14: a user who is not the administrator submits an update only for a
\* ticket they are assigned to, and only an accept or a reject of an
\* ASSIGNED ticket or a move of an IN_PROGRESS ticket to WAITING_PARTS,
\* COMPLETED or CANCELLED.
C14_TechnicianUpdates ==
    \A s \in Acting : \A r \in InFlight(s) :
        ~sess[s].isAdmin =>
            /\ Includes(sess[s].data.assignees, sess[s].userId)
            /\ \/ r.op \in {"accept", "reject"} /\ sess[s].data.status = "ASSIGNED"
               \/ /\ sess[s].data.status = "IN_PROGRESS"
                  /\ r.status \in {"WAITING_PARTS", "COMPLETED", "CANCELLED"}

\* C15: when the role-aware page is asked to change the status to the one
\* the ticket was loaded with, it reports an error and sends nothing.
C15_NoSilentNoOp ==
    \A s \in Acting :
        LET c == sess[s] IN
        (Shown(c) /\ c.page = "adminRole"
            /\ c.data.status \in StatusOptions(c) /\ c.data.status # c.status)
            => LET d == StatusChanged(c, c.data.status)
               IN  d.error /\ d.reqs = c.reqs

\* C17: while a page stays on screen, its snapshot changes only in a step
\* that commits one of its requests, and then to the status that request
\* carries; a request that ends with the snapshot unchanged leaves an error
\* message on the page.
C17_SnapshotAfterConfirm ==
    [][\A s \in Sessions :
          (sess[s].loaded /\ sess'[s].loaded) =>
              /\ sess'[s].data # sess[s].data =>
                    \E i \in 1..Len(sess[s].reqs) :
                        /\ ticket' = Apply(ticket, sess[s].reqs[i])
                        /\ sess'[s].data.status = sess[s].reqs[i].status
              /\ (Len(sess'[s].reqs) < Len(sess[s].reqs) /\ sess'[s].data = sess[s].data) =>
                    sess'[s].error]_vars

\* An accept was committed and patched into the snapshot of the page that
\* sent it: the status is the committed one, the assignee list still the
\* loaded one
C17_Witness ==
    \E s \in Acting :
        /\ sess[s].page = "adminAccept" /\ sess[s].loaded
        /\ sess[s].data.status = "IN_PROGRESS" /\ ticket.status = "IN_PROGRESS"
        /\ SeqToSet(sess[s].data.assignees) # ticket.assignees

\* No id occurs twice in seq
Distinct(seq) == \A i, j \in 1..Len(seq) : i # j => seq[i] # seq[j]

\* C18: the assignee ids an update carries are pairwise distinct.
C18_AssigneeIdsDistinct ==
    \A s \in Acting : \A r \in InFlight(s) :
        r.hasAssignees => Distinct(r.assigneeIds)

\* An accept in flight that names the user after another, ticked, assignee
\* of a ticket loaded without assignees
C18_Witness ==
    \E s \in Acting : \E r \in InFlight(s) :
        /\ r.op = "accept" /\ r.hasAssignees
        /\ sess[s].data.assignees = <<>>
        /\ Len(r.assigneeIds) >= 2
        /\ Includes(r.assigneeIds, sess[s].userId)

\* C20: while a step-workflow page shows a ticket loaded in PENDING, every
\* update it has sent is an accept to IN_PROGRESS or a delegate to ASSIGNED,
\* and the status select, the management assignee list, the repair notes
\* and Save are disabled.
C20_PendingOnlyAcceptOrDelegate ==
    \A s \in Acting :
        LET c == sess[s] IN
        (c.page \in {"adminDelegate", "adminAccept"} /\ c.loaded /\ c.data.status = "PENDING")
            => /\ \A r \in InFlight(s) :
                    \/ r.op = "accept" /\ r.status = "IN_PROGRESS"
                    \/ r.op = "delegate" /\ r.status = "ASSIGNED"
               /\ StatusOptions(c) = {}
               /\ ~ManagementListEnabled(c)
               /\ ~NotesEditable(c)
               /\ ~SaveEnabled(c)

\* A delegate is in flight from a page that shows the ticket as PENDING
C20_Witness ==
    \E s \in Acting : \E r \in InFlight(s) :
        /\ sess[s].page = "adminDelegate" /\ sess[s].data.status = "PENDING"
        /\ r.op = "delegate"

\* C21: no update the IT page sends carries an assignee set, so each leaves
\* the ticket with the assignees it was loaded with.
C21_ITKeepsAssignees ==
    \A s \in Acting : \A r \in InFlight(s) :
        sess[s].page = "it" =>
            /\ ~r.hasAssignees
            /\ ResultAssignees(sess[s], r) = SeqToSet(sess[s].data.assignees)

\* The IT page of an assignee has a Save in flight
C21_Witness ==
    \E s \in Acting : \E r \in InFlight(s) :
        /\ sess[s].page = "it" /\ r.op = "save"
        /\ sess[s].data.assignees # <<>>

\* C23: for a ticket loaded in PENDING, the status a Save of the role-aware
\* admin page carries is the one derived from the assignees it carries, and
\* PENDING when it carries none.
C23_SaveStatusFollowsSelection ==
    \A s \in Acting : \A r \in InFlight(s) :
        (sess[s].page = "adminRole" /\ sess[s].data.status = "PENDING" /\ r.op = "save")
            => r.status = (IF r.assigneeIds # <<>>
                           THEN DerivedStatus(sess[s].userId, r.assigneeIds)
                           ELSE "PENDING")

\* C24: an update that carries ASSIGNED leaves the ticket with at least one
\* assignee.
C24_AssignedHasAssignee ==
    \A s \in Acting : \A r \in InFlight(s) :
        r.status = "ASSIGNED" => ResultAssignees(sess[s], r) # {}

\* C25: an admin page that has loaded a ticket renders it without a fault,
\* whatever the ticket's status.
C25_TablesTotal ==
    \A s \in Acting :
        sess[s].page # "it" => ~RenderFaults(sess[s])

\* C26: a page has at most one update request in flight.
C26_OneRequestInFlight ==
    \A s \in Acting : Len(sess[s].reqs) <= 1

\* C22: however often the effect runs, the callback page sends at most one
\* request that carries the code and ends in at most one redirect or error.
C22_ExchangeOnce ==
    cb.exchanges <= 1 /\ cb.redirects + cb.errors <= 1

\* The effect ran twice, the code was exchanged once and the page redirected
C22_Witness ==
    cb.effectRuns >= 2 /\ cb.exchanges = 1 /\ cb.redirects = 1

\* C27: once the callback handler has returned with no request or timer
\* pending, the page shows a message instead of the spinner.
C27_HandlerLeavesLoading ==
    cb.pc = "done" => ~cb.isLoading /\ (cb.error \/ cb.success)

\* C28: whenever the filtered list of the loans page is not empty, the
\* current page number lies within 1..totalPages.
C28_PageWithinRange ==
    (loansPage.open /\ totalPages(loansPage) > 0)
        => loansPage.currentPage \in 1..totalPages(loansPage)

====
